---- MODULE Spec2Model ----
(***************************************************************************)
(* State-machine model of the iexec-demo command line tool.                *)
(*                                                                         *)
(* Three revisions of the send command are in the source tree and are      *)
(* modelled side by side, selected by the variable mode:                   *)
(*   SINGLE      src/src/index.ts        send-test-tg (first contact only) *)
(*   CONCURRENT  src/unnamed/part_000    send-test (Promise.race)          *)
(*   SEQUENTIAL  src/unnamed/part_001    send-test (for loop)              *)
(* The subscribe and withdraw commands are those of src/unnamed/part_001.  *)
(*                                                                         *)
(* One action is one run of the handler between two suspension points      *)
(* (awaits); collaborator outcomes are nondeterministic.                   *)
(***************************************************************************)
EXTENDS Integers, Sequences, FiniteSets, TLC

\* ------------------------------------------------------------------------
\* Bounds of the model
\* ------------------------------------------------------------------------
MaxContacts == 2
TickMs == 30000
MaxClock == 90000

\* ------------------------------------------------------------------------
\* Program constants
\* ------------------------------------------------------------------------
TimeoutMs == 60000

AddrPool == <<"A", "B", "C", "D">>
Addr == {AddrPool[n] : n \in 1..MaxContacts}
Services == {"telegram", "mail"}
ServiceInputs == Services \cup {"bogus"}
Modes == {"SINGLE", "CONCURRENT", "SEQUENTIAL"}
Causes == {"none", "insufficient funds"}

\* null is the empty tuple
Null == << >>

NoResult == [contact |-> "none", taskId |-> Null, success |-> FALSE,
             error |-> Null, sendTime |-> 0]
NoSummary == [total |-> 0, successCount |-> 0, errorCount |-> 0,
              samples |-> 0, sumSendTime |-> 0, minSendTime |-> 0,
              maxSendTime |-> 0]

VARIABLES
  cmd,              \* the command being run
  pc,               \* position of the handler
  exitCode,         \* -1 while the process lives, else its exit status
  fatal,            \* the error handed to handleError, Null without one
  selectedService,  \* options.service / prompt answer
  privateKey,       \* TRUE when the credential is in the environment
  mode,             \* which revision of the send command runs
  contactBook,      \* what fetchMyContacts will return
  relayAccepts,     \* addresses for which the relay's send resolves
  relayCause,       \* the cause attached to a relay rejection
  contacts,         \* const contacts
  i,                \* loop index of the sequential loop (1-based)
  sendPromises,     \* the promises of the concurrent map
  timerArmed,       \* setTimeout of timeoutPromise was called
  timerFired,       \* timeoutPromise is rejected
  timedOut,         \* the catch (timeoutError) branch was taken
  pendingAtTimeout, \* indexes still pending when that branch was entered
  results,          \* const results
  successCount,
  errorCount,
  sendTimes,
  summary,          \* what the summary prints
  sendLog,          \* send calls received by the messaging relay
  now,              \* Date.now()
  startTime,
  protectedData,    \* data-protection service: the owner's protected data
  grantedAccess,    \* data-protection service: grants per protected data
  nextAddress,      \* data-protection service: next address it hands out
  protectedDataList,    \* subscribe: const protectedDataList
  probeIndex,           \* subscribe: loop index of the probe loop (1-based)
  probeFailed,          \* subscribe: some getGrantedAccess call was caught
  foundExistingAccess,  \* subscribe: let foundExistingAccess
  protectedDataAddress, \* subscribe: let protectedDataAddress
  shouldGrantAccess,    \* subscribe: let shouldGrantAccess
  outcome,              \* subscribe: which of the three endings was reported
  dpCalls,          \* calls this run issued to the data-protection service
  runs,             \* number of command runs so far
  prevRun,          \* the run before this one
  allGrantedAccess, \* unsubscribe: let allGrantedAccess (datasets)
  revokeIndex,      \* unsubscribe: loop index of the revoke loop (1-based)
  totalRevoked,     \* unsubscribe: let totalRevoked
  printed,          \* unsubscribe: the counts written to the console
  stake,            \* account service: balance.stake
  locked,           \* account service: balance.locked
  amountOption,     \* options.amount
  available,        \* withdraw: formatted.available
  withdrawAmountNano,   \* withdraw: let withdrawAmountNano
  accountCalls,     \* calls this run issued to the account service
  depositAmountNano,    \* deposit: const depositAmountNano
  prompts           \* the answers given to the confirmation prompts

sendEnv == <<mode, contactBook, relayAccepts, relayCause>>
procEnv == <<cmd, selectedService, privateKey>>
serviceState == <<protectedData, grantedAccess, nextAddress>>
subscribeLocals == <<protectedDataList, probeIndex, probeFailed,
                     foundExistingAccess, protectedDataAddress,
                     shouldGrantAccess, outcome>>
revokeLocals == <<allGrantedAccess, revokeIndex, totalRevoked, printed>>
reconVars == <<serviceState, subscribeLocals, dpCalls, runs, prevRun,
               revokeLocals>>
balanceVars == <<stake, locked>>
acctVars == <<balanceVars, amountOption, available, withdrawAmountNano,
              accountCalls, depositAmountNano, prompts>>

\* what a run of the send command never changes
fixedVars == <<procEnv, sendEnv, reconVars, acctVars>>
timerVars == <<timerArmed, timerFired, timedOut, pendingAtTimeout>>
accVars == <<results, successCount, errorCount, sendTimes, summary>>
dispatchVars == <<contacts, i, sendPromises, timerVars, accVars, sendLog,
                  now, startTime>>

vars == <<pc, exitCode, fatal, fixedVars, dispatchVars>>

\* ------------------------------------------------------------------------
\* Helpers
\* ------------------------------------------------------------------------
RECURSIVE SeqSum(_)
SeqSum(s) == IF s = << >> THEN 0 ELSE Head(s) + SeqSum(Tail(s))

RECURSIVE SeqMin(_)
SeqMin(s) == IF Len(s) = 1 THEN s[1]
             ELSE LET m == SeqMin(Tail(s)) IN IF s[1] < m THEN s[1] ELSE m

RECURSIVE SeqMax(_)
SeqMax(s) == IF Len(s) = 1 THEN s[1]
             ELSE LET m == SeqMax(Tail(s)) IN IF s[1] > m THEN s[1] ELSE m

\* Injective sequences over S of length at most n
InjSeqs(S, n) ==
  UNION { { s \in [1..k -> S] : \A a, b \in 1..k : a # b => s[a] # s[b] }
          : k \in 0..n }

\* The error a rejected relay call carries
RelayError == [message |-> "send rejected", cause |-> relayCause]

\* part_000:533-539: cause ? `Cause: .. Error: ..` : message
ErrorTextWithCause(err) ==
  IF err.cause # "none"
    THEN <<"Cause", err.cause, "Error", err.message>>
    ELSE <<err.message>>

SuccessResult(contact, duration) ==
  [contact |-> contact, taskId |-> <<"task", contact>>, success |-> TRUE,
   error |-> Null, sendTime |-> duration]

FailureResult(contact, text, duration) ==
  [contact |-> contact, taskId |-> Null, success |-> FALSE,
   error |-> text, sendTime |-> duration]

\* The statistics block and the summary lines
Summarize(times, okCount, errCount) ==
  [total |-> Len(contacts),
   successCount |-> okCount,
   errorCount |-> errCount,
   samples |-> Len(times),
   sumSendTime |-> SeqSum(times),
   minSendTime |-> IF Len(times) > 0 THEN SeqMin(times) ELSE 0,
   maxSendTime |-> IF Len(times) > 0 THEN SeqMax(times) ELSE 0]

\* handleError: report and process.exit(1)
HandleErrorReturns(error) ==
  /\ pc' = "done"
  /\ fatal' = error
  /\ exitCode' = exitCode

HandleError(error) ==
  /\ pc' = "exited"
  /\ fatal' = error
  /\ exitCode' = 1

\* ------------------------------------------------------------------------
\* send-test, common prefix (part_000:350-424, part_001:473-547,
\* index.ts:247-276)
\* ------------------------------------------------------------------------

\* Service validation, then initializeWeb3Telegram / initializeWeb3Mail
SendTestValidate ==
  /\ cmd = "send-test"
  /\ pc = "start"
  /\ IF mode # "SINGLE" /\ selectedService \notin Services
       THEN HandleError(<<"Invalid service">>)
       ELSE IF ~privateKey
         THEN HandleError(<<"PRIVATE_KEY not found">>)
         ELSE pc' = "fetch" /\ UNCHANGED <<exitCode, fatal>>
  /\ UNCHANGED <<fixedVars, dispatchVars>>

\* fetchMyContacts rejects
FetchContactsFail ==
  /\ cmd = "send-test"
  /\ pc = "fetch"
  /\ HandleError(<<"fetchMyContacts failed">>)
  /\ UNCHANGED <<fixedVars, dispatchVars>>

\* fetchMyContacts returns no contact: throw, handleError
FetchContactsEmptyProceeds ==
  /\ cmd = "send-test"
  /\ pc = "fetch"
  /\ Len(contactBook) = 0
  /\ contacts' = contactBook
  /\ pc' = "done"
  /\ UNCHANGED <<exitCode, fatal, fixedVars, i, sendPromises, timerVars,
                 accVars, sendLog, now, startTime>>

FetchContactsEmpty ==
  /\ cmd = "send-test"
  /\ pc = "fetch"
  /\ Len(contactBook) = 0
  /\ contacts' = contactBook
  /\ HandleError(<<"No contacts available">>)
  /\ UNCHANGED <<fixedVars, i, sendPromises, timerVars, accVars, sendLog,
                 now, startTime>>

\* ------------------------------------------------------------------------
\* send-test-tg (src/src/index.ts): one send, to the first contact
\* ------------------------------------------------------------------------
FetchContactsSingle ==
  /\ cmd = "send-test"
  /\ pc = "fetch"
  /\ mode = "SINGLE"
  /\ Len(contactBook) > 0
  /\ contacts' = contactBook
  /\ sendLog' = Append(sendLog, contactBook[1])
  /\ pc' = "send"
  /\ UNCHANGED <<exitCode, fatal, fixedVars, i, sendPromises, timerVars, accVars,
                 now, startTime>>

SingleSendOk ==
  /\ cmd = "send-test"
  /\ pc = "send"
  /\ contacts[1] \in relayAccepts
  /\ pc' = "done"
  /\ UNCHANGED <<exitCode, fatal, fixedVars, dispatchVars>>

SingleSendFail ==
  /\ cmd = "send-test"
  /\ pc = "send"
  /\ contacts[1] \notin relayAccepts
  /\ HandleError(ErrorTextWithCause(RelayError))
  /\ UNCHANGED <<fixedVars, dispatchVars>>

\* ------------------------------------------------------------------------
\* send-test, sequential loop (src/unnamed/part_001)
\* ------------------------------------------------------------------------
FetchContactsSequential ==
  /\ cmd = "send-test"
  /\ pc = "fetch"
  /\ mode = "SEQUENTIAL"
  /\ Len(contactBook) > 0
  /\ contacts' = contactBook
  /\ startTime' = now
  /\ i' = 1
  /\ pc' = "loop"
  /\ UNCHANGED <<exitCode, fatal, fixedVars, sendPromises, timerVars, accVars,
                 sendLog, now>>

\* The text of the TypeError raised by result.taskId on an unassigned result
UndefinedTaskIdText == <<"Cannot read properties of undefined">>

\* What one pass of the loop body appends to results.  The two send calls
\* are commented out (part_001:589-605), result stays undefined, and the
\* object literal of results.push throws at result.taskId (line 614) before
\* anything is pushed; the catch block pushes the failure entry.
SeqLoopResultsNoPush(contact, catchDuration) == << >>

SeqLoopResults(contact, catchDuration) ==
  <<FailureResult(contact, UndefinedTaskIdText, catchDuration)>>

\* What one pass appends to sendTimes: line 610 in the try block has run
\* before the throw, line 631 runs in the catch block.
SeqLoopTimes(tryDuration, catchDuration) == <<tryDuration, catchDuration>>

\* The send calls one pass issues to the relay: none, they are commented out
SeqLoopSends(contact) == << >>

\* One pass of for (let i = 0; i < contacts.length; i++); after the last
\* pass the handler runs on through the statistics and the summary.
SeqIterationAborts ==
  /\ cmd = "send-test"
  /\ pc = "loop"
  /\ mode = "SEQUENTIAL"
  /\ i <= Len(contacts)
  /\ HandleError(UndefinedTaskIdText)
  /\ UNCHANGED <<fixedVars, dispatchVars>>

SeqIteration ==
  /\ cmd = "send-test"
  /\ pc = "loop"
  /\ mode = "SEQUENTIAL"
  /\ i <= Len(contacts)
  /\ \E tryDuration, catchDuration \in {0, TickMs} :
       /\ tryDuration <= catchDuration
       /\ now + catchDuration <= MaxClock
       /\ now' = now + catchDuration
       /\ sendTimes' = sendTimes \o SeqLoopTimes(tryDuration, catchDuration)
       /\ results' = results \o SeqLoopResults(contacts[i], catchDuration)
  /\ sendLog' = sendLog \o SeqLoopSends(contacts[i])
  /\ errorCount' = errorCount + 1
  /\ i' = i + 1
  /\ IF i = Len(contacts)
       THEN /\ pc' = "done"
            /\ summary' = Summarize(sendTimes', successCount, errorCount')
       ELSE /\ pc' = "loop"
            /\ summary' = summary
  /\ UNCHANGED <<exitCode, fatal, fixedVars, contacts, sendPromises, timerVars,
                 successCount, startTime>>

\* ------------------------------------------------------------------------
\* send-test, concurrent map raced against a timeout (src/unnamed/part_000)
\* ------------------------------------------------------------------------
Pending(promises) == {k \in DOMAIN promises : promises[k].state = "pending"}

\* contacts.map: every async body runs up to its await, so every send call
\* is issued before the handler reaches Promise.race
FetchContactsConcurrent ==
  /\ cmd = "send-test"
  /\ pc = "fetch"
  /\ mode = "CONCURRENT"
  /\ Len(contactBook) > 0
  /\ contacts' = contactBook
  /\ startTime' = now
  /\ timerArmed' = TRUE
  /\ sendPromises' = [k \in 1..Len(contactBook) |->
                        [state |-> "pending", sendStartTime |-> now,
                         value |-> NoResult]]
  /\ sendLog' = sendLog \o contactBook
  /\ pc' = "race"
  /\ UNCHANGED <<exitCode, fatal, fixedVars, i, timerFired, timedOut,
                 pendingAtTimeout, accVars, now>>

SendValueDropsError(k) ==
  LET sendDuration == now - sendPromises[k].sendStartTime
  IN IF contacts[k] \in relayAccepts
       THEN SuccessResult(contacts[k], sendDuration)
       ELSE FailureResult(contacts[k], Null, sendDuration)

\* The value the async body of contact k returns when its send settles
SendValue(k) ==
  LET sendDuration == now - sendPromises[k].sendStartTime
  IN IF contacts[k] \in relayAccepts
       THEN SuccessResult(contacts[k], sendDuration)
       ELSE FailureResult(contacts[k], ErrorTextWithCause(RelayError),
                          sendDuration)

Settled(k) ==
  [sendPromises EXCEPT ![k] = [state |-> "fulfilled",
                               sendStartTime |-> @.sendStartTime,
                               value |-> SendValue(k)]]

\* One step of settledResults.forEach (part_000:557-576 and 587-605)
ForEachEntry(promise, timeoutBranch) ==
  IF promise.state = "fulfilled"
    THEN promise.value
    ELSE FailureResult("unknown",
                       IF timeoutBranch THEN <<"Timeout">>
                                        ELSE <<"Unknown error">>,
                       IF timeoutBranch THEN TimeoutMs ELSE 0)

RECURSIVE ForEachResults(_, _, _)
ForEachResultsAllOrNothing(promises, k, timeoutBranch) ==
  IF \E j \in k..Len(promises) : ~promises[j].value.success
    THEN << >>
    ELSE [j \in 1..(Len(promises) - k + 1) |->
            ForEachEntry(promises[j + k - 1], timeoutBranch)]

ForEachResults(promises, k, timeoutBranch) ==
  IF k > Len(promises) THEN << >>
  ELSE <<ForEachEntry(promises[k], timeoutBranch)>>
         \o ForEachResults(promises, k + 1, timeoutBranch)

CountSuccess(res) == Cardinality({k \in DOMAIN res : res[k].success})
CountErrorRejectedOnly(res) ==
  Cardinality({k \in DOMAIN res : res[k].contact = "unknown"})

CountError(res) == Cardinality({k \in DOMAIN res : ~res[k].success})

CollectInCompletionOrder(promises, times, timeoutBranch) ==
  LET Rank(j) ==
        1 + Cardinality({m \in DOMAIN promises :
               \/ promises[m].value.sendTime < promises[j].value.sendTime
               \/ /\ promises[m].value.sendTime = promises[j].value.sendTime
                  /\ m < j})
      res == [r \in DOMAIN promises |->
                ForEachEntry(promises[CHOOSE j \in DOMAIN promises :
                                        Rank(j) = r],
                             timeoutBranch)]
  IN /\ results' = results \o res
     /\ successCount' = successCount + CountSuccess(res)
     /\ errorCount' = errorCount + CountError(res)
     /\ summary' = Summarize(times, successCount', errorCount')

\* The forEach over the settled promises followed by the statistics
Collect(promises, times, timeoutBranch) ==
  LET res == ForEachResults(promises, 1, timeoutBranch)
  IN /\ results' = results \o res
     /\ successCount' = successCount + CountSuccess(res)
     /\ errorCount' = errorCount + CountError(res)
     /\ summary' = Summarize(times, successCount', errorCount')

\* A send settles while others are still pending
SettleSend(k) ==
  /\ cmd = "send-test"
  /\ pc \in {"race", "drain"}
  /\ k \in Pending(sendPromises)
  /\ Pending(sendPromises) # {k}
  /\ sendPromises' = Settled(k)
  /\ sendTimes' = Append(sendTimes, SendValue(k).sendTime)
  /\ UNCHANGED <<pc, exitCode, fatal, fixedVars, contacts, i, timerVars, results,
                 successCount, errorCount, summary, sendLog, now, startTime>>

\* The last send settles before the timer: Promise.allSettled wins the race
SettleLastInRace(k) ==
  /\ cmd = "send-test"
  /\ pc = "race"
  /\ Pending(sendPromises) = {k}
  /\ sendPromises' = Settled(k)
  /\ sendTimes' = Append(sendTimes, SendValue(k).sendTime)
  /\ Collect(sendPromises', sendTimes', FALSE)
  /\ pc' = "done"
  /\ UNCHANGED <<exitCode, fatal, fixedVars, contacts, i, timerVars, sendLog, now,
                 startTime>>

\* The timer callback rejects timeoutPromise.  While the handler waits in
\* Promise.race it resumes in catch (timeoutError) and waits again, in
\* await Promise.allSettled(sendPromises) (part_000:586).
TimeoutFiresUnhandled ==
  /\ cmd = "send-test"
  /\ exitCode = -1
  /\ timerArmed
  /\ ~timerFired
  /\ now >= startTime + TimeoutMs
  /\ timerFired' = TRUE
  /\ IF pc = "race"
       THEN /\ timedOut' = TRUE
            /\ pendingAtTimeout' = Pending(sendPromises)
            /\ pc' = "drain"
            /\ UNCHANGED <<exitCode, fatal>>
       ELSE /\ HandleError(<<"Timeout after 60 seconds">>)
            /\ UNCHANGED <<timedOut, pendingAtTimeout>>
  /\ UNCHANGED <<fixedVars, contacts, i, sendPromises, timerArmed,
                 accVars, sendLog, now, startTime>>

TimeoutFires ==
  /\ cmd = "send-test"
  /\ exitCode = -1
  /\ timerArmed
  /\ ~timerFired
  /\ now >= startTime + TimeoutMs
  /\ timerFired' = TRUE
  /\ IF pc = "race"
       THEN /\ timedOut' = TRUE
            /\ pendingAtTimeout' = Pending(sendPromises)
            /\ pc' = "drain"
       ELSE UNCHANGED <<timedOut, pendingAtTimeout, pc>>
  /\ UNCHANGED <<exitCode, fatal, fixedVars, contacts, i, sendPromises, timerArmed,
                 accVars, sendLog, now, startTime>>

\* The last send settles after the timeout: the second allSettled resolves
SettleLastInDrain(k) ==
  /\ cmd = "send-test"
  /\ pc = "drain"
  /\ Pending(sendPromises) = {k}
  /\ sendPromises' = Settled(k)
  /\ sendTimes' = Append(sendTimes, SendValue(k).sendTime)
  /\ Collect(sendPromises', sendTimes', TRUE)
  /\ pc' = "done"
  /\ UNCHANGED <<exitCode, fatal, fixedVars, contacts, i, timerVars, sendLog, now,
                 startTime>>

\* Time passes while the process waits
Tick ==
  /\ cmd = "send-test"
  /\ exitCode = -1
  /\ \/ pc \in {"race", "drain"}
     \/ pc = "done" /\ timerArmed /\ ~timerFired
  /\ ~(timerArmed /\ ~timerFired /\ now >= startTime + TimeoutMs)
  /\ now + TickMs <= MaxClock
  /\ now' = now + TickMs
  /\ UNCHANGED <<pc, exitCode, fatal, fixedVars, contacts, i, sendPromises,
                 timerVars, accVars, sendLog, startTime>>

\* The handler has returned and nothing keeps the event loop alive
ProcessExit ==
  /\ cmd = "send-test"
  /\ pc = "done"
  /\ ~(timerArmed /\ ~timerFired)
  /\ pc' = "exited"
  /\ exitCode' = 0
  /\ UNCHANGED <<fatal, fixedVars, dispatchVars>>

\* ------------------------------------------------------------------------
\* The send command
\* ------------------------------------------------------------------------
NoRun == [cmd |-> "none", service |-> "none", outcome |-> "none",
          address |-> 0, exitCode |-> -1, created |-> FALSE]
\* options.amount: absent, a text parseFloat cannot read, or a number
NoAmount == [kind |-> "absent", value |-> 0]
NotANumber == [kind |-> "NaN", value |-> 0]

\* The data-protection service is not part of the run
ReconIdle ==
  /\ protectedData = {}
  /\ grantedAccess = << >>
  /\ nextAddress = 1
  /\ protectedDataList = << >>
  /\ probeIndex = 0
  /\ probeFailed = FALSE
  /\ foundExistingAccess = FALSE
  /\ protectedDataAddress = 0
  /\ shouldGrantAccess = TRUE
  /\ outcome = "none"
  /\ dpCalls = << >>
  /\ runs = 1
  /\ prevRun = NoRun
  /\ allGrantedAccess = << >>
  /\ revokeIndex = 0
  /\ totalRevoked = 0
  /\ printed = {}

\* The account service is not part of the run
AccountIdle ==
  /\ stake = 0
  /\ locked = 0
  /\ amountOption = NoAmount
  /\ available = 0
  /\ withdrawAmountNano = 0
  /\ accountCalls = << >>
  /\ depositAmountNano = 0
  /\ prompts = << >>

\* The send command is not part of the run
DispatchIdle ==
  /\ mode = "SEQUENTIAL"
  /\ contactBook = << >>
  /\ relayAccepts = {}
  /\ relayCause = "none"
  /\ contacts = << >>
  /\ i = 0
  /\ sendPromises = << >>
  /\ timerArmed = FALSE
  /\ timerFired = FALSE
  /\ timedOut = FALSE
  /\ pendingAtTimeout = {}
  /\ results = << >>
  /\ successCount = 0
  /\ errorCount = 0
  /\ sendTimes = << >>
  /\ summary = NoSummary
  /\ sendLog = << >>
  /\ now = 0
  /\ startTime = 0

InitDispatch ==
  /\ cmd = "send-test"
  /\ pc = "start"
  /\ exitCode = -1
  /\ fatal = Null
  /\ selectedService \in ServiceInputs
  /\ privateKey \in BOOLEAN
  /\ mode \in Modes
  /\ contactBook \in InjSeqs(Addr, MaxContacts)
  /\ relayAccepts \in SUBSET Addr
  /\ relayCause \in Causes
  /\ contacts = << >>
  /\ i = 0
  /\ sendPromises = << >>
  /\ timerArmed = FALSE
  /\ timerFired = FALSE
  /\ timedOut = FALSE
  /\ pendingAtTimeout = {}
  /\ results = << >>
  /\ successCount = 0
  /\ errorCount = 0
  /\ sendTimes = << >>
  /\ summary = NoSummary
  /\ sendLog = << >>
  /\ now = 0
  /\ startTime = 0
  /\ ReconIdle
  /\ AccountIdle

NextDispatch ==
  \/ SendTestValidate
  \/ FetchContactsFail
  \/ FetchContactsEmpty
  \/ FetchContactsSingle
  \/ SingleSendOk
  \/ SingleSendFail
  \/ FetchContactsSequential
  \/ SeqIteration
  \/ FetchContactsConcurrent
  \/ \E k \in DOMAIN sendPromises : SettleSend(k)
  \/ \E k \in DOMAIN sendPromises : SettleLastInRace(k)
  \/ TimeoutFires
  \/ \E k \in DOMAIN sendPromises : SettleLastInDrain(k)
  \/ Tick
  \/ ProcessExit

SpecDispatch == InitDispatch /\ [][NextDispatch]_vars

\* The scheduler runs every continuation that is ready and the timer fires
\* when due; nothing makes the relay answer.
HandlerStep ==
  \/ SendTestValidate
  \/ FetchContactsEmpty
  \/ FetchContactsSingle
  \/ FetchContactsSequential
  \/ FetchContactsConcurrent
  \/ SeqIteration
  \/ TimeoutFires
  \/ Tick
  \/ ProcessExit

FairSpecDispatch ==
  InitDispatch /\ [][NextDispatch]_vars /\ WF_vars(HandlerStep)

\* ------------------------------------------------------------------------
\* Properties of the send command
\* ------------------------------------------------------------------------
SummaryProduced == summary # NoSummary

InOrder(res) ==
  /\ Len(res) = Len(contacts)
  /\ \A k \in DOMAIN res : res[k].contact = contacts[k]

\* C1: a sequential dispatch over a non-empty target list yields one entry
\* per target, in input order, and entry k is a success exactly when the
\* relay's send for targets[k] succeeds.
C1_SequentialSuccessFollowsSend ==
  (mode = "SEQUENTIAL" /\ SummaryProduced) =>
    /\ InOrder(results)
    /\ \A k \in DOMAIN results :
         results[k].success <=> (contacts[k] \in relayAccepts)

\* C2: in both dispatch modes, once the summary is produced, its success
\* count plus its failure count is the number of targets.
C2_CountsAddUp ==
  SummaryProduced =>
    /\ summary.successCount + summary.errorCount = Len(contacts)
    /\ summary.total = Len(contacts)
    /\ summary.successCount = successCount
    /\ summary.errorCount = errorCount

C2_Witness ==
  /\ mode = "CONCURRENT"
  /\ SummaryProduced
  /\ Len(contacts) = 2
  /\ summary.successCount = 1
  /\ summary.errorCount = 1

\* C5: in CONCURRENT mode, when the timeout fires while send k is pending,
\* the summary has one entry per target, entry k is a failure with a
\* timeout reason, and every other entry is that target's own outcome.
C5_TimeoutTruncation ==
  (mode = "CONCURRENT" /\ timedOut /\ SummaryProduced) =>
    /\ InOrder(results)
    /\ \A k \in DOMAIN results :
         IF k \in pendingAtTimeout
           THEN ~results[k].success /\ results[k].error = <<"Timeout">>
           ELSE results[k] = sendPromises[k].value

\* C6: in CONCURRENT mode, once the timeout has elapsed the dispatch
\* eventually returns its summary, whether or not the pending sends settle.
C6_ReturnsAfterTimeout ==
  (mode = "CONCURRENT" /\ timerFired) ~> SummaryProduced

\* C8: a failed send neither aborts the dispatch nor leaves it as an error:
\* it becomes an entry with success = false and an error description, and
\* every target of the list, the later ones included, has its own entry.
DispatchBegun == mode \in {"SEQUENTIAL", "CONCURRENT"} /\ Len(contacts) > 0

C8_FailureIsolated ==
  DispatchBegun =>
    /\ fatal = Null
    /\ exitCode # 1
    /\ \A k \in DOMAIN results : ~results[k].success => results[k].error # Null
    /\ pc \in {"done", "exited"} => InOrder(results)
    /\ (mode = "CONCURRENT" /\ pc \in {"done", "exited"}) =>
         \A k \in DOMAIN results :
           results[k].success <=> (contacts[k] \in relayAccepts)

C8_Witness ==
  /\ mode = "CONCURRENT"
  /\ pc = "done"
  /\ Len(results) = 2
  /\ ~results[1].success
  /\ results[2].success

C10_OneSendPerContact ==
  pc = "done" => sendLog = contacts

\* C11: in CONCURRENT mode every send call is issued before the handler
\* waits for any of them, and whatever the order in which the sends settle
\* and whichever of them fail, the summary has an entry for every target
\* and the entry of a target the relay accepts is a success with a task id.
C11_OutcomesIndependent ==
  mode = "CONCURRENT" =>
    /\ pc \in {"race", "drain", "done"} =>
         /\ sendLog = contacts
         /\ DOMAIN sendPromises = DOMAIN contacts
    /\ pc = "fetch" => sendLog = << >>
    /\ SummaryProduced =>
         /\ Len(results) = Len(contacts)
         /\ \A k \in DOMAIN contacts :
              contacts[k] \in relayAccepts =>
                \E r \in DOMAIN results :
                  /\ results[r].contact = contacts[k]
                  /\ results[r].success
                  /\ results[r].taskId = <<"task", contacts[k]>>

\* The second target is rejected first, the first target succeeds later
C11_Witness ==
  /\ mode = "CONCURRENT"
  /\ SummaryProduced
  /\ Len(contacts) = 2
  /\ results[1].success
  /\ ~results[2].success
  /\ results[2].sendTime < results[1].sendTime

\* C12: in CONCURRENT mode, whatever the order in which the sends settle,
\* entry k of the summary's results is the outcome of targets[k].
C12_InputOrder ==
  (mode = "CONCURRENT" /\ SummaryProduced) =>
    /\ DOMAIN results = DOMAIN contacts
    /\ \A k \in DOMAIN results :
         /\ results[k].contact = contacts[k]
         /\ results[k] = sendPromises[k].value

\* The sends settle in the reverse of the input order
C12_Witness ==
  /\ mode = "CONCURRENT"
  /\ SummaryProduced
  /\ Len(contacts) = 2
  /\ sendPromises[2].value.sendTime < sendPromises[1].value.sendTime
  /\ results[1].contact = contacts[1]
  /\ results[2].contact = contacts[2]

\* fetchMyContacts has answered this run of send-test
ContactsFetched == cmd = "send-test" /\ pc \notin {"start", "fetch"}

\* C27: when fetchMyContacts returns an empty list, send-test throws
\* before any dispatch: no send call reaches the relay, no result is
\* recorded, no summary is produced and the process exits with status 1.
C27_EmptyContactsRejected ==
  (ContactsFetched /\ contactBook = << >>) =>
    /\ pc = "exited"
    /\ exitCode = 1
    /\ fatal \in {<<"No contacts available">>, <<"fetchMyContacts failed">>,
                  <<"Invalid service">>, <<"PRIVATE_KEY not found">>}
    /\ sendLog = << >>
    /\ sendPromises = << >>
    /\ results = << >>
    /\ ~SummaryProduced

C27_Witness ==
  /\ cmd = "send-test"
  /\ contactBook = << >>
  /\ fatal = <<"No contacts available">>
  /\ pc = "exited"
  /\ exitCode = 1

\* The per-item elapsed times of a list of result entries, as a bag
TimesOf(seq) ==
  [t \in {seq[k] : k \in DOMAIN seq} |->
     Cardinality({k \in DOMAIN seq : seq[k] = t})]

\* C28: the statistics are taken over the per-item elapsed times of the
\* result entries, one sample per target: the samples are as many as the
\* results and are their sendTime values, min <= avg <= max (avg being
\* sum / samples), and all are zero without samples.
C28_StatisticsFromResults ==
  SummaryProduced =>
    /\ summary.samples = Len(results)
    /\ TimesOf(sendTimes) = TimesOf([k \in DOMAIN results |->
                                      results[k].sendTime])
    /\ summary.minSendTime * summary.samples <= summary.sumSendTime
    /\ summary.sumSendTime <= summary.maxSendTime * summary.samples
    /\ summary.samples = 0 =>
         /\ summary.minSendTime = 0
         /\ summary.maxSendTime = 0
         /\ summary.sumSendTime = 0

\* ------------------------------------------------------------------------
\* subscribe (src/unnamed/part_001:161-459)
\* ------------------------------------------------------------------------
MaxInitData == 2
MaxInitGrants == 1
MaxRuns == 2

DataKeys == {"telegram_chatId", "email"}

\* part_001:195 and 237
DataKey(service) == IF service = "telegram" THEN "telegram_chatId" ELSE "email"

\* getProtectedData({owner, requiredSchema: {[dataKey], apebonddata}})
Matching(service) ==
  {d.address : d \in {e \in protectedData :
                        e.dataKey = DataKey(service) /\ e.apebonddata}}

\* The listing comes in an order the service chooses
Listings(S) ==
  {s \in [1..Cardinality(S) -> S] :
     \A a, b \in 1..Cardinality(S) : a # b => s[a] # s[b]}

Call(op, target, ok) ==
  [op |-> op, target |-> target, ok |-> ok, count |-> 0]

\* A getGrantedAccess call that resolved with count grants
ProbeResult(target, count) ==
  [op |-> "getGrantedAccess", target |-> target, ok |-> TRUE,
   count |-> count]

CallsOf(op) == {k \in DOMAIN dpCalls : dpCalls[k].op = op}

\* Service validation, the chat id / e-mail prompt, initializeDataProtector
SubscribeValidate ==
  /\ cmd = "subscribe"
  /\ pc = "start"
  /\ IF selectedService \notin Services
       THEN HandleError(<<"Invalid service">>)
       ELSE IF ~privateKey
         THEN HandleError(<<"PRIVATE_KEY not found">>)
         ELSE pc' = "list" /\ UNCHANGED <<exitCode, fatal>>
  /\ UNCHANGED <<procEnv, sendEnv, dispatchVars, reconVars, acctVars>>

\* getProtectedData rejects
SubscribeListFail ==
  /\ cmd = "subscribe"
  /\ pc = "list"
  /\ dpCalls' = Append(dpCalls, Call("getProtectedData", 0, FALSE))
  /\ HandleError(<<"getProtectedData failed">>)
  /\ UNCHANGED <<procEnv, sendEnv, dispatchVars, serviceState,
                 subscribeLocals, runs, prevRun, acctVars,
                 revokeLocals>>

\* Where the handler waits after the listing: the first probe, or the
\* creation when nothing is listed (part_001:307 and 383)
AfterListingAlwaysCreate(list) == "create"

AfterListing(list) == IF Len(list) > 0 THEN "probe" ELSE "create"

\* getProtectedData resolves
SubscribeList ==
  /\ cmd = "subscribe"
  /\ pc = "list"
  /\ \E list \in Listings(Matching(selectedService)) :
       /\ protectedDataList' = list
       /\ pc' = AfterListing(list)
       /\ probeIndex' = IF Len(list) > 0 THEN 1 ELSE 0
  /\ dpCalls' = Append(dpCalls, Call("getProtectedData", 0, TRUE))
  /\ UNCHANGED <<exitCode, fatal, procEnv, sendEnv, dispatchVars,
                 serviceState, probeFailed, foundExistingAccess,
                 protectedDataAddress, shouldGrantAccess, outcome, runs,
                 prevRun, acctVars,
                 revokeLocals>>

\* The probe loop goes on after a resource without grant, or ends without
\* a match: the first listed resource is used (part_001:371-373)
ProbeContinuesUsesLast ==
  IF probeIndex < Len(protectedDataList)
    THEN /\ probeIndex' = probeIndex + 1
         /\ pc' = "probe"
         /\ UNCHANGED protectedDataAddress
    ELSE /\ probeIndex' = probeIndex
         /\ pc' = "grant"
         /\ protectedDataAddress' = protectedDataList[probeIndex]

ProbeContinues ==
  IF probeIndex < Len(protectedDataList)
    THEN /\ probeIndex' = probeIndex + 1
         /\ pc' = "probe"
         /\ UNCHANGED protectedDataAddress
    ELSE /\ probeIndex' = probeIndex
         /\ pc' = "grant"
         /\ protectedDataAddress' = protectedDataList[1]

\* grantedAccess.length > 0 (part_001:333)
HasGrantNever(address) == FALSE

HasGrant(address) == grantedAccess[address] > 0

\* getGrantedAccess resolves for protectedDataList[probeIndex]
ProbeGrants ==
  /\ cmd = "subscribe"
  /\ pc = "probe"
  /\ LET address == protectedDataList[probeIndex]
     IN /\ dpCalls' = Append(dpCalls,
                             ProbeResult(address, grantedAccess[address]))
        /\ IF HasGrant(address)
             THEN /\ foundExistingAccess' = TRUE
                  /\ protectedDataAddress' = address
                  /\ shouldGrantAccess' = FALSE
                  /\ outcome' = "ALREADY_SUBSCRIBED"
                  /\ pc' = "done"
                  /\ UNCHANGED probeIndex
             ELSE /\ ProbeContinues
                  /\ UNCHANGED <<foundExistingAccess, shouldGrantAccess,
                                 outcome>>
  /\ UNCHANGED <<exitCode, fatal, procEnv, sendEnv, dispatchVars,
                 serviceState, protectedDataList, probeFailed, runs, prevRun,
                 acctVars,
                 revokeLocals>>

\* getGrantedAccess rejects: logged, the loop goes on (part_001:348-357)
ProbeFailsAborts ==
  /\ cmd = "subscribe"
  /\ pc = "probe"
  /\ dpCalls' = Append(dpCalls, Call("getGrantedAccess",
                                     protectedDataList[probeIndex], FALSE))
  /\ HandleError(<<"getGrantedAccess failed">>)
  /\ UNCHANGED <<procEnv, sendEnv, dispatchVars, serviceState,
                 subscribeLocals, runs, prevRun, acctVars,
                 revokeLocals>>

ProbeFails ==
  /\ cmd = "subscribe"
  /\ pc = "probe"
  /\ dpCalls' = Append(dpCalls, Call("getGrantedAccess",
                                     protectedDataList[probeIndex], FALSE))
  /\ probeFailed' = TRUE
  /\ ProbeContinues
  /\ UNCHANGED <<exitCode, fatal, procEnv, sendEnv, dispatchVars,
                 serviceState, protectedDataList, foundExistingAccess,
                 shouldGrantAccess, outcome, runs, prevRun, acctVars,
                 revokeLocals>>

\* What protectData stores: the input under dataKey and the marker field
NewDataNoMarker(address, service) ==
  [address |-> address, dataKey |-> DataKey(service), apebonddata |-> FALSE]

NewData(address, service) ==
  [address |-> address, dataKey |-> DataKey(service), apebonddata |-> TRUE]

\* After the creation the handler goes on to step 2 with shouldGrantAccess
\* still true (part_001:305 and 415)
AfterCreateNoGrant == "done"

AfterCreate == "grant"

\* protectData resolves
CreateOk ==
  /\ cmd = "subscribe"
  /\ pc = "create"
  /\ dpCalls' = Append(dpCalls, Call("protectData", nextAddress, TRUE))
  /\ protectedData' = protectedData \cup {NewData(nextAddress, selectedService)}
  /\ grantedAccess' = grantedAccess \o <<0>>
  /\ nextAddress' = nextAddress + 1
  /\ protectedDataAddress' = nextAddress
  /\ pc' = AfterCreate
  /\ UNCHANGED <<exitCode, fatal, procEnv, sendEnv, dispatchVars,
                 protectedDataList, probeIndex, probeFailed,
                 foundExistingAccess, shouldGrantAccess, outcome, runs,
                 prevRun, acctVars,
                 revokeLocals>>

\* protectData rejects
CreateFail ==
  /\ cmd = "subscribe"
  /\ pc = "create"
  /\ dpCalls' = Append(dpCalls, Call("protectData", 0, FALSE))
  /\ HandleError(<<"protectData failed">>)
  /\ UNCHANGED <<procEnv, sendEnv, dispatchVars, serviceState,
                 subscribeLocals, runs, prevRun, acctVars,
                 revokeLocals>>

\* After the grant the handler reports and returns (part_001:427-455)
AfterGrantAgain == "grant"

AfterGrant == "done"

\* grantAccess resolves
GrantOk ==
  /\ cmd = "subscribe"
  /\ pc = "grant"
  /\ dpCalls' = Append(dpCalls, Call("grantAccess", protectedDataAddress, TRUE))
  /\ grantedAccess' = [grantedAccess EXCEPT ![protectedDataAddress] = @ + 1]
  /\ outcome' = IF Len(protectedDataList) > 0 THEN "GRANTED_TO_EXISTING"
                                              ELSE "CREATED_AND_GRANTED"
  /\ pc' = AfterGrant
  /\ UNCHANGED <<exitCode, fatal, procEnv, sendEnv, dispatchVars,
                 protectedData, nextAddress, protectedDataList, probeIndex,
                 probeFailed, foundExistingAccess, protectedDataAddress,
                 shouldGrantAccess, runs, prevRun, acctVars,
                 revokeLocals>>

\* grantAccess rejects: handleError, what protectData created stays
GrantFailRollsBack ==
  /\ cmd = "subscribe"
  /\ pc = "grant"
  /\ dpCalls' = Append(dpCalls, Call("grantAccess", protectedDataAddress, FALSE))
  /\ HandleError(<<"grantAccess failed">>)
  /\ protectedData' = {d \in protectedData :
                         Len(protectedDataList) > 0
                           \/ d.address # protectedDataAddress}
  /\ UNCHANGED <<procEnv, sendEnv, dispatchVars, grantedAccess, nextAddress,
                 subscribeLocals, runs, prevRun, acctVars,
                 revokeLocals>>

GrantFail ==
  /\ cmd = "subscribe"
  /\ pc = "grant"
  /\ dpCalls' = Append(dpCalls, Call("grantAccess", protectedDataAddress, FALSE))
  /\ HandleError(<<"grantAccess failed">>)
  /\ UNCHANGED <<procEnv, sendEnv, dispatchVars, serviceState,
                 subscribeLocals, runs, prevRun, acctVars,
                 revokeLocals>>

\* The handler has returned
SubscribeExit ==
  /\ cmd = "subscribe"
  /\ pc = "done"
  /\ pc' = "exited"
  /\ exitCode' = 0
  /\ UNCHANGED <<fatal, procEnv, sendEnv, dispatchVars, reconVars, acctVars>>

\* The user runs the command again
RunAgain ==
  /\ cmd = "subscribe"
  /\ pc = "exited"
  /\ runs < MaxRuns
  /\ runs' = runs + 1
  /\ prevRun' = [cmd |-> cmd, service |-> selectedService,
                 outcome |-> outcome, address |-> protectedDataAddress,
                 exitCode |-> exitCode,
                 created |-> \E k \in CallsOf("protectData") : dpCalls[k].ok]
  /\ cmd' = "subscribe"
  /\ selectedService' \in ServiceInputs
  /\ pc' = "start"
  /\ exitCode' = -1
  /\ fatal' = Null
  /\ protectedDataList' = << >>
  /\ probeIndex' = 0
  /\ probeFailed' = FALSE
  /\ foundExistingAccess' = FALSE
  /\ protectedDataAddress' = 0
  /\ shouldGrantAccess' = TRUE
  /\ outcome' = "none"
  /\ dpCalls' = << >>
  /\ UNCHANGED <<privateKey, sendEnv, dispatchVars, serviceState, acctVars,
                 revokeLocals>>

\* The protected data and grants the service holds before the first run
InitialData ==
  UNION {[1..k -> [dataKey : DataKeys, apebonddata : BOOLEAN,
                   grants : 0..MaxInitGrants]] : k \in 0..MaxInitData}

InitReconcile ==
  /\ cmd = "subscribe"
  /\ pc = "start"
  /\ exitCode = -1
  /\ fatal = Null
  /\ selectedService \in ServiceInputs
  /\ privateKey \in BOOLEAN
  /\ \E data \in InitialData :
       /\ protectedData = {[address |-> a, dataKey |-> data[a].dataKey,
                            apebonddata |-> data[a].apebonddata]
                           : a \in DOMAIN data}
       /\ grantedAccess = [a \in DOMAIN data |-> data[a].grants]
       /\ nextAddress = Len(data) + 1
  /\ protectedDataList = << >>
  /\ probeIndex = 0
  /\ probeFailed = FALSE
  /\ foundExistingAccess = FALSE
  /\ protectedDataAddress = 0
  /\ shouldGrantAccess = TRUE
  /\ outcome = "none"
  /\ dpCalls = << >>
  /\ runs = 1
  /\ prevRun = NoRun
  /\ allGrantedAccess = << >>
  /\ revokeIndex = 0
  /\ totalRevoked = 0
  /\ printed = {}
  /\ DispatchIdle
  /\ AccountIdle

NextReconcile ==
  \/ SubscribeValidate
  \/ SubscribeListFail
  \/ SubscribeList
  \/ ProbeGrants
  \/ ProbeFails
  \/ CreateOk
  \/ CreateFail
  \/ GrantOk
  \/ GrantFail
  \/ SubscribeExit
  \/ RunAgain

SpecReconcile == InitReconcile /\ [][NextReconcile]_vars

\* ------------------------------------------------------------------------
\* Properties of subscribe
\* ------------------------------------------------------------------------
Ended == pc \in {"done", "exited"}

\* This run follows a subscribe run with the same service that created a
\* resource and granted access on it
SecondAfterCreate ==
  /\ cmd = "subscribe"
  /\ prevRun.cmd = "subscribe"
  /\ prevRun.outcome = "CREATED_AND_GRANTED"
  /\ prevRun.service = selectedService

ListedEmpty ==
  /\ cmd = "subscribe"
  /\ pc \notin {"start", "list"}
  /\ Len(protectedDataList) = 0
  /\ \E k \in DOMAIN dpCalls :
       dpCalls[k].op = "getProtectedData" /\ dpCalls[k].ok

\* C4: on an empty listing subscribe takes the create path: no probe, one
\* createResource call, then (the resource being created) one grantAccess
\* call on the new resource, and when both succeed the ending is
\* CREATED_AND_GRANTED; it never is ALREADY_SUBSCRIBED or GRANTED_TO_EXISTING.
C4_EmptyListingCreates ==
  ListedEmpty =>
    /\ outcome \notin {"ALREADY_SUBSCRIBED", "GRANTED_TO_EXISTING"}
    /\ CallsOf("getGrantedAccess") = {}
    /\ Cardinality(CallsOf("protectData")) = IF pc = "create" THEN 0 ELSE 1
    /\ \A g \in CallsOf("grantAccess") :
         \E c \in CallsOf("protectData") :
           /\ c < g
           /\ dpCalls[c].ok
           /\ dpCalls[g].target = dpCalls[c].target
    /\ (Ended /\ \E c \in CallsOf("protectData") : dpCalls[c].ok) =>
         Cardinality(CallsOf("grantAccess")) = 1
    /\ (Ended /\ exitCode # 1) => outcome = "CREATED_AND_GRANTED"
    /\ outcome = "CREATED_AND_GRANTED" =>
         \A k \in DOMAIN dpCalls : dpCalls[k].ok

C4_Witness ==
  /\ ListedEmpty
  /\ pc = "exited"
  /\ outcome = "CREATED_AND_GRANTED"
  /\ Cardinality(CallsOf("protectData")) = 1
  /\ Cardinality(CallsOf("grantAccess")) = 1

\* The listing of this run resolved with at least one resource
ListedSome == cmd = "subscribe" /\ Len(protectedDataList) > 0

ProbeCalls == CallsOf("getGrantedAccess")

\* The service holds a grant for (address, app, user)
Granted(address) == grantedAccess[address] > 0

\* The scan of the listing is over
ScanOver == pc \in {"grant", "done", "exited"}

\* C13: a subscribe run issues at most one createResource call and at most
\* one grantAccess call, whatever the listing and whichever probes fail.
C13_AtMostOneCreateOneGrant ==
  cmd = "subscribe" =>
    /\ Cardinality(CallsOf("protectData")) <= 1
    /\ Cardinality(CallsOf("grantAccess")) <= 1

C13_Witness ==
  /\ cmd = "subscribe"
  /\ pc = "done"
  /\ probeFailed
  /\ Len(protectedDataList) = 2
  /\ Cardinality(ProbeCalls) = 2
  /\ Cardinality(CallsOf("grantAccess")) = 1

FoundAt ==
  {k \in DOMAIN protectedDataList :
     /\ k + 1 \in ProbeCalls
     /\ dpCalls[k + 1].ok
     /\ Granted(protectedDataList[k])}

NoneGrantedAtStart ==
  \A k \in DOMAIN protectedDataList :
    grantedAccess[protectedDataList[k]] =
      IF k = 1 /\ \E g \in CallsOf("grantAccess") : dpCalls[g].ok
        THEN 1 ELSE 0

\* C15: with a non-empty listing none of whose resources holds a grant, the
\* run probes every listed resource, then issues its one grantAccess call
\* on the first listed resource, calls no createResource, and when that
\* call succeeds the ending is GRANTED_TO_EXISTING on that resource.
C15_NoGrantReusesFirst ==
  (ListedSome /\ NoneGrantedAtStart) =>
    /\ outcome \notin {"ALREADY_SUBSCRIBED", "CREATED_AND_GRANTED"}
    /\ CallsOf("protectData") = {}
    /\ \A g \in CallsOf("grantAccess") :
         /\ dpCalls[g].target = protectedDataList[1]
         /\ Cardinality(ProbeCalls) = Len(protectedDataList)
    /\ pc = "grant" => protectedDataAddress = protectedDataList[1]
    /\ Ended => Cardinality(CallsOf("grantAccess")) = 1
    /\ (Ended /\ exitCode # 1) =>
         /\ outcome = "GRANTED_TO_EXISTING"
         /\ protectedDataAddress = protectedDataList[1]
         /\ Granted(protectedDataList[1])

C15_Witness ==
  /\ ListedSome
  /\ NoneGrantedAtStart
  /\ ~probeFailed
  /\ Len(protectedDataList) = 2
  /\ pc = "exited"
  /\ outcome = "GRANTED_TO_EXISTING"
  /\ protectedDataAddress = protectedDataList[1]

\* C16: createResource is called only after an empty listing: with a
\* non-empty listing the run never reaches the creation, also when every
\* probe fails or no listed resource holds a grant.
C16_CreateOnlyOnEmptyListing ==
  cmd = "subscribe" =>
    /\ (pc = "create" \/ CallsOf("protectData") # {}) => ListedEmpty
    /\ ListedSome =>
         /\ pc # "create"
         /\ \A k \in DOMAIN dpCalls : dpCalls[k].op # "protectData"
         /\ outcome # "CREATED_AND_GRANTED"

\* Every probe of a two-resource listing failed and the run ended
C16_Witness ==
  /\ ListedSome
  /\ Len(protectedDataList) = 2
  /\ Cardinality({c \in ProbeCalls : ~dpCalls[c].ok}) = 2
  /\ pc = "exited"
  /\ exitCode = 0
  /\ CallsOf("protectData") = {}

\* C17: a failed grant probe is not fatal and counts as no grant for that
\* resource: the scan goes on with the next listed resource, and a later
\* resource whose probe finds a grant still ends the run ALREADY_SUBSCRIBED
\* on that resource.
C17_FailedProbeSkipped ==
  (cmd = "subscribe" /\ \E c \in ProbeCalls : ~dpCalls[c].ok) =>
    /\ fatal \in {Null, <<"grantAccess failed">>}
    /\ \A c \in ProbeCalls :
         (~dpCalls[c].ok /\ c - 1 < Len(protectedDataList)) =>
           \/ c = Len(dpCalls) /\ pc = "probe" /\ probeIndex = c
           \/ /\ c + 1 \in ProbeCalls
              /\ dpCalls[c + 1].target = protectedDataList[c]
    /\ \A c \in ProbeCalls :
         (~dpCalls[c].ok /\ c - 1 = Len(protectedDataList)) =>
           pc \in {"grant", "done", "exited"}
    /\ \A c \in ProbeCalls :
         (dpCalls[c].ok /\ Granted(dpCalls[c].target)
            /\ CallsOf("grantAccess") = {}) =>
           /\ outcome = "ALREADY_SUBSCRIBED"
           /\ protectedDataAddress = dpCalls[c].target
           /\ exitCode # 1

C17_Witness ==
  /\ cmd = "subscribe"
  /\ Len(protectedDataList) = 2
  /\ Len(dpCalls) = 3
  /\ ~dpCalls[2].ok
  /\ dpCalls[3].ok
  /\ outcome = "ALREADY_SUBSCRIBED"
  /\ protectedDataAddress = protectedDataList[2]

\* The calls of this run to createResource or grantAccess that failed
FailedWrites ==
  {c \in CallsOf("protectData") \cup CallsOf("grantAccess") : ~dpCalls[c].ok}

\* C18: a failed createResource or grantAccess call is the last call of
\* the run: it is not repeated, no other collaborator call follows, no
\* ending is reported and the process exits with status 1.
C18_WriteFailureFatal ==
  cmd = "subscribe" =>
    \A c \in FailedWrites :
      /\ c = Len(dpCalls)
      /\ Cardinality(CallsOf(dpCalls[c].op)) = 1
      /\ pc = "exited"
      /\ exitCode = 1
      /\ fatal # Null
      /\ outcome = "none"

C18_Witness ==
  /\ cmd = "subscribe"
  /\ Len(dpCalls) = 3
  /\ dpCalls[2].op = "protectData"
  /\ dpCalls[2].ok
  /\ dpCalls[3].op = "grantAccess"
  /\ ~dpCalls[3].ok
  /\ exitCode = 1

\* ------------------------------------------------------------------------
\* withdraw (src/unnamed/part_001:865-973, src/src/index.ts:414-522)
\* ------------------------------------------------------------------------
MaxStake == 3
MaxRequest == 8
\* --amount is a decimal number of RLC; the model gives it in fractions
\* 1/Resolution of a nano RLC
Resolution == 2

AmountOptions ==
  {NoAmount, NotANumber}
    \cup {[kind |-> "number", value |-> v] : v \in -Resolution..MaxRequest}

AccountCall(op, amount, ok) == [op |-> op, amount |-> amount, ok |-> ok]

\* formatBalance: available = BigInt(stake) - BigInt(locked)
FormatBalance(balanceStake, balanceLocked) ==
  [staked |-> balanceStake, locked |-> balanceLocked,
   available |-> balanceStake - balanceLocked]

\* BigInt(Math.floor(parseFloat(amount) * 1_000_000_000))
ToNano(amount) == amount \div Resolution

\* initializeIExec
WithdrawValidateNoKeyCheck ==
  /\ cmd = "withdraw"
  /\ pc = "start"
  /\ pc' = "address"
  /\ UNCHANGED <<exitCode, fatal, procEnv, sendEnv, dispatchVars, reconVars,
                 acctVars>>

WithdrawValidate ==
  /\ cmd = "withdraw"
  /\ pc = "start"
  /\ IF ~privateKey
       THEN HandleError(<<"PRIVATE_KEY not found">>)
       ELSE pc' = "address" /\ UNCHANGED <<exitCode, fatal>>
  /\ UNCHANGED <<procEnv, sendEnv, dispatchVars, reconVars, acctVars>>

\* iexec.wallet.getAddress resolves
WithdrawAddress ==
  /\ cmd = "withdraw"
  /\ pc = "address"
  /\ pc' = "balance"
  /\ UNCHANGED <<exitCode, fatal, procEnv, sendEnv, dispatchVars, reconVars,
                 acctVars>>

\* iexec.wallet.getAddress rejects
WithdrawAddressFail ==
  /\ cmd = "withdraw"
  /\ pc = "address"
  /\ HandleError(<<"getAddress failed">>)
  /\ UNCHANGED <<procEnv, sendEnv, dispatchVars, reconVars, acctVars>>

\* iexec.account.checkBalance rejects
WithdrawBalanceFail ==
  /\ cmd = "withdraw"
  /\ pc = "balance"
  /\ accountCalls' = Append(accountCalls, AccountCall("checkBalance", 0, FALSE))
  /\ HandleError(<<"checkBalance failed">>)
  /\ UNCHANGED <<procEnv, sendEnv, dispatchVars, reconVars, balanceVars,
                 amountOption, available, withdrawAmountNano,
                 depositAmountNano, prompts>>

\* if (withdrawAmountNano > BigInt(formatted.available))
ExceedsStake(amountNano, availableNano) == amountNano > stake

Exceeds(amountNano, availableNano) == amountNano > availableNano

\* if (BigInt(formatted.available) === 0n)
NothingStaked(formatted) == formatted.staked = 0

NothingAvailable(formatted) == formatted.available = 0

\* iexec.account.checkBalance resolves; the handler runs up to the
\* confirmation prompt, or returns, or throws (part_001:880-934)
WithdrawBalance ==
  /\ cmd = "withdraw"
  /\ pc = "balance"
  /\ accountCalls' = Append(accountCalls, AccountCall("checkBalance", 0, TRUE))
  /\ LET formatted == FormatBalance(stake, locked)
     IN /\ available' = formatted.available
        /\ IF NothingAvailable(formatted)
             THEN /\ pc' = "done"
                  /\ UNCHANGED <<exitCode, fatal, withdrawAmountNano>>
             ELSE IF amountOption = NoAmount
               THEN /\ withdrawAmountNano' = formatted.available
                    /\ pc' = "confirm"
                    /\ UNCHANGED <<exitCode, fatal>>
               ELSE IF amountOption = NotANumber
                 THEN /\ HandleError(<<"RangeError">>)
                      /\ UNCHANGED withdrawAmountNano
                 ELSE /\ withdrawAmountNano' = ToNano(amountOption.value)
                      /\ IF Exceeds(ToNano(amountOption.value),
                                    formatted.available)
                           THEN HandleError(<<"Insufficient balance">>)
                           ELSE pc' = "confirm" /\ UNCHANGED <<exitCode, fatal>>
  /\ UNCHANGED <<procEnv, sendEnv, dispatchVars, reconVars, balanceVars,
                 amountOption, depositAmountNano, prompts>>

\* The user declines
WithdrawDeclined ==
  /\ cmd = "withdraw"
  /\ pc = "confirm"
  /\ prompts' = Append(prompts, FALSE)
  /\ pc' = "done"
  /\ UNCHANGED <<exitCode, fatal, procEnv, sendEnv, dispatchVars, reconVars,
                 balanceVars, amountOption, available, withdrawAmountNano,
                 accountCalls, depositAmountNano>>

\* The user confirms: iexec.account.withdraw is called
WithdrawConfirmed ==
  /\ cmd = "withdraw"
  /\ pc = "confirm"
  /\ accountCalls' = Append(accountCalls,
                            AccountCall("withdraw", withdrawAmountNano, TRUE))
  /\ prompts' = Append(prompts, TRUE)
  /\ pc' = "withdrawing"
  /\ UNCHANGED <<exitCode, fatal, procEnv, sendEnv, dispatchVars, reconVars,
                 balanceVars, amountOption, available, withdrawAmountNano,
                 depositAmountNano>>

\* iexec.account.withdraw resolves
WithdrawOk ==
  /\ cmd = "withdraw"
  /\ pc = "withdrawing"
  /\ withdrawAmountNano >= 0
  /\ withdrawAmountNano <= stake - locked
  /\ stake' = stake - withdrawAmountNano
  /\ pc' = "recheck"
  /\ UNCHANGED <<exitCode, fatal, procEnv, sendEnv, dispatchVars, reconVars,
                 locked, amountOption, available, withdrawAmountNano,
                 accountCalls,
                 depositAmountNano, prompts>>

\* iexec.account.withdraw rejects
WithdrawFail ==
  /\ cmd = "withdraw"
  /\ pc = "withdrawing"
  /\ HandleError(<<"withdraw failed">>)
  /\ UNCHANGED <<procEnv, sendEnv, dispatchVars, reconVars, acctVars>>

\* The second checkBalance resolves and the handler returns
WithdrawRecheck ==
  /\ cmd = "withdraw"
  /\ pc = "recheck"
  /\ accountCalls' = Append(accountCalls, AccountCall("checkBalance", 0, TRUE))
  /\ pc' = "done"
  /\ UNCHANGED <<exitCode, fatal, procEnv, sendEnv, dispatchVars, reconVars,
                 balanceVars, amountOption, available, withdrawAmountNano,
                 depositAmountNano, prompts>>

\* The second checkBalance rejects
WithdrawRecheckFail ==
  /\ cmd = "withdraw"
  /\ pc = "recheck"
  /\ accountCalls' = Append(accountCalls, AccountCall("checkBalance", 0, FALSE))
  /\ HandleError(<<"checkBalance failed">>)
  /\ UNCHANGED <<procEnv, sendEnv, dispatchVars, reconVars, balanceVars,
                 amountOption, available, withdrawAmountNano,
                 depositAmountNano, prompts>>

\* The handler has returned
WithdrawExit ==
  /\ cmd = "withdraw"
  /\ pc = "done"
  /\ pc' = "exited"
  /\ exitCode' = 0
  /\ UNCHANGED <<fatal, procEnv, sendEnv, dispatchVars, reconVars, acctVars>>

InitAccount ==
  /\ cmd = "withdraw"
  /\ pc = "start"
  /\ exitCode = -1
  /\ fatal = Null
  /\ selectedService = "telegram"
  /\ privateKey \in BOOLEAN
  /\ stake \in 0..MaxStake
  /\ locked \in 0..stake
  /\ amountOption \in AmountOptions
  /\ available = 0
  /\ withdrawAmountNano = 0
  /\ accountCalls = << >>
  /\ depositAmountNano = 0
  /\ prompts = << >>
  /\ DispatchIdle
  /\ ReconIdle

NextAccount ==
  \/ WithdrawValidate
  \/ WithdrawAddress
  \/ WithdrawAddressFail
  \/ WithdrawBalanceFail
  \/ WithdrawBalance
  \/ WithdrawDeclined
  \/ WithdrawConfirmed
  \/ WithdrawOk
  \/ WithdrawFail
  \/ WithdrawRecheck
  \/ WithdrawRecheckFail
  \/ WithdrawExit

SpecAccount == InitAccount /\ [][NextAccount]_vars

\* ------------------------------------------------------------------------
\* Properties of withdraw
\* ------------------------------------------------------------------------
BalanceFetched ==
  /\ cmd = "withdraw"
  /\ Len(accountCalls) > 0
  /\ accountCalls[1] = AccountCall("checkBalance", 0, TRUE)

WithdrawCalls == {k \in DOMAIN accountCalls : accountCalls[k].op = "withdraw"}

AmountGiven == amountOption.kind = "number"

\* C7 as stated: whenever the requested amount exceeds the available
\* balance fetched at the start (available = 0 included), an
\* insufficient-balance error is raised and no withdraw call is issued.
C7_InsufficientBalanceRaised ==
  (BalanceFetched /\ AmountGiven
     /\ amountOption.value > Resolution * available) =>
    /\ fatal = <<"Insufficient balance">>
    /\ exitCode = 1
    /\ WithdrawCalls = {}

\* C7 as amended: whenever the requested amount, converted to nano RLC and
\* rounded down, exceeds the available balance fetched at the start, no
\* withdraw call is issued; an insufficient-balance error is raised when
\* the available balance is not zero, and with an available balance of
\* zero the command ends with a warning and without error.
C7_InsufficientBalanceNoCall ==
  (BalanceFetched /\ AmountGiven /\ ToNano(amountOption.value) > available) =>
    /\ WithdrawCalls = {}
    /\ available # 0 => fatal = <<"Insufficient balance">> /\ exitCode = 1
    /\ available = 0 => fatal = Null /\ exitCode # 1 /\ Ended

C7_Witness ==
  /\ BalanceFetched
  /\ AmountGiven
  /\ available = 2
  /\ ToNano(amountOption.value) = 3
  /\ fatal = <<"Insufficient balance">>
  /\ exitCode = 1

\* ------------------------------------------------------------------------
\* unsubscribe (src/unnamed/part_001:976-1182)
\* ------------------------------------------------------------------------
MaxRevokeData == 2
MaxRevokeGrants == 2

\* initializeDataProtector, then the service validation
UnsubscribeValidate ==
  /\ cmd = "unsubscribe"
  /\ pc = "start"
  /\ IF ~privateKey
       THEN HandleError(<<"PRIVATE_KEY not found">>)
       ELSE IF selectedService \notin Services
         THEN HandleError(<<"Invalid service">>)
         ELSE pc' = "list" /\ UNCHANGED <<exitCode, fatal>>
  /\ UNCHANGED <<procEnv, sendEnv, dispatchVars, reconVars, acctVars>>

\* A count the command writes to the console
Report(label, value) == [label |-> label, value |-> value]

\* getProtectedData rejects: the inner catch logs and the handler returns
UnsubscribeListFailFatal ==
  /\ cmd = "unsubscribe"
  /\ pc = "list"
  /\ dpCalls' = Append(dpCalls, Call("getProtectedData", 0, FALSE))
  /\ HandleError(<<"getProtectedData failed">>)
  /\ UNCHANGED <<procEnv, sendEnv, dispatchVars,
                 serviceState, subscribeLocals, runs, prevRun, revokeLocals,
                 acctVars>>

UnsubscribeListFail ==
  /\ cmd = "unsubscribe"
  /\ pc = "list"
  /\ dpCalls' = Append(dpCalls, Call("getProtectedData", 0, FALSE))
  /\ pc' = "done"
  /\ UNCHANGED <<exitCode, fatal, procEnv, sendEnv, dispatchVars,
                 serviceState, subscribeLocals, runs, prevRun, revokeLocals,
                 acctVars>>

\* getProtectedData resolves; an empty listing ends the command
UnsubscribeList ==
  /\ cmd = "unsubscribe"
  /\ pc = "list"
  /\ \E list \in Listings(Matching(selectedService)) :
       /\ protectedDataList' = list
       /\ pc' = IF Len(list) = 0 THEN "done" ELSE "probe"
       /\ probeIndex' = IF Len(list) = 0 THEN 0 ELSE 1
       /\ printed' = IF Len(list) = 0 THEN printed
                      ELSE printed \cup {Report("scanned", Len(list))}
  /\ dpCalls' = Append(dpCalls, Call("getProtectedData", 0, TRUE))
  /\ UNCHANGED <<exitCode, fatal, procEnv, sendEnv, dispatchVars,
                 serviceState, probeFailed, foundExistingAccess,
                 protectedDataAddress, shouldGrantAccess, outcome, runs,
                 prevRun, allGrantedAccess, revokeIndex, totalRevoked,
                 acctVars>>

\* The grants a resolved getGrantedAccess returns for a resource, each by
\* its dataset
FoundGrantsOnePerDataset(address) ==
  IF grantedAccess[address] > 0 THEN <<address>> ELSE << >>

FoundGrants(address) == [g \in 1..grantedAccess[address] |-> address]

\* The probe loop goes on, or ends: without any grant the command ends,
\* else the revoke loop begins (part_001:1101-1125)
ProbeLoopNext(found) ==
  IF probeIndex < Len(protectedDataList)
    THEN /\ probeIndex' = probeIndex + 1
         /\ pc' = "probe"
         /\ UNCHANGED <<revokeIndex, totalRevoked, printed>>
    ELSE /\ probeIndex' = probeIndex
         /\ IF Len(found) = 0
              THEN /\ pc' = "done"
                   /\ UNCHANGED <<revokeIndex, totalRevoked, printed>>
              ELSE /\ pc' = "revoke"
                   /\ revokeIndex' = 1
                   /\ totalRevoked' = 0
                   /\ printed' = printed \cup {Report("found", Len(found))}

\* getGrantedAccess resolves for protectedDataList[probeIndex]
UnsubscribeProbe ==
  /\ cmd = "unsubscribe"
  /\ pc = "probe"
  /\ LET address == protectedDataList[probeIndex]
     IN /\ dpCalls' = Append(dpCalls,
                             ProbeResult(address, grantedAccess[address]))
        /\ allGrantedAccess' = allGrantedAccess \o FoundGrants(address)
  /\ ProbeLoopNext(allGrantedAccess')
  /\ UNCHANGED <<exitCode, fatal, procEnv, sendEnv, dispatchVars,
                 serviceState, protectedDataList, probeFailed,
                 foundExistingAccess, protectedDataAddress,
                 shouldGrantAccess, outcome, runs, prevRun, acctVars>>

\* getGrantedAccess rejects: logged, the loop goes on (part_001:1089-1098)
UnsubscribeProbeFail ==
  /\ cmd = "unsubscribe"
  /\ pc = "probe"
  /\ dpCalls' = Append(dpCalls, Call("getGrantedAccess",
                                     protectedDataList[probeIndex], FALSE))
  /\ probeFailed' = TRUE
  /\ ProbeLoopNext(allGrantedAccess)
  /\ UNCHANGED <<exitCode, fatal, procEnv, sendEnv, dispatchVars,
                 serviceState, protectedDataList, foundExistingAccess,
                 protectedDataAddress, shouldGrantAccess, outcome, runs,
                 prevRun, allGrantedAccess, acctVars>>

\* The revoke loop goes on, or the command ends
RevokeLoopNext(revoked) ==
  /\ revokeIndex' = revokeIndex + 1
  /\ IF revokeIndex < Len(allGrantedAccess)
       THEN pc' = "revoke" /\ UNCHANGED printed
       ELSE /\ pc' = "done"
            /\ printed' = IF revoked > 0
                             THEN printed \cup {Report("revoked", revoked)}
                             ELSE printed

\* revokeAllAccess resolves: every grant of (dataset, app, user) is gone
RevokeOkDeletesData ==
  /\ cmd = "unsubscribe"
  /\ pc = "revoke"
  /\ LET dataset == allGrantedAccess[revokeIndex]
     IN /\ dpCalls' = Append(dpCalls, Call("revokeAllAccess", dataset, TRUE))
        /\ grantedAccess' = [grantedAccess EXCEPT ![dataset] = 0]
        /\ protectedData' = {d \in protectedData : d.address # dataset}
  /\ totalRevoked' = totalRevoked + 1
  /\ RevokeLoopNext(totalRevoked + 1)
  /\ UNCHANGED <<exitCode, fatal, procEnv, sendEnv, dispatchVars,
                 nextAddress, subscribeLocals, runs, prevRun,
                 allGrantedAccess, acctVars>>

RevokeOk ==
  /\ cmd = "unsubscribe"
  /\ pc = "revoke"
  /\ LET dataset == allGrantedAccess[revokeIndex]
     IN /\ dpCalls' = Append(dpCalls, Call("revokeAllAccess", dataset, TRUE))
        /\ grantedAccess' = [grantedAccess EXCEPT ![dataset] = 0]
  /\ totalRevoked' = totalRevoked + 1
  /\ RevokeLoopNext(totalRevoked + 1)
  /\ UNCHANGED <<exitCode, fatal, procEnv, sendEnv, dispatchVars,
                 protectedData, nextAddress, subscribeLocals, runs, prevRun,
                 allGrantedAccess, acctVars>>

\* revokeAllAccess rejects: logged, the loop goes on (part_001:1148-1155)
RevokeFailAborts ==
  /\ cmd = "unsubscribe"
  /\ pc = "revoke"
  /\ dpCalls' = Append(dpCalls, Call("revokeAllAccess",
                                     allGrantedAccess[revokeIndex], FALSE))
  /\ pc' = "done"
  /\ UNCHANGED <<exitCode, fatal, procEnv, sendEnv, dispatchVars,
                 serviceState, subscribeLocals, runs, prevRun, revokeLocals,
                 acctVars>>

RevokeFail ==
  /\ cmd = "unsubscribe"
  /\ pc = "revoke"
  /\ dpCalls' = Append(dpCalls, Call("revokeAllAccess",
                                     allGrantedAccess[revokeIndex], FALSE))
  /\ RevokeLoopNext(totalRevoked)
  /\ UNCHANGED <<exitCode, fatal, procEnv, sendEnv, dispatchVars,
                 serviceState, subscribeLocals, runs, prevRun,
                 allGrantedAccess, totalRevoked, acctVars>>

\* The handler has returned
UnsubscribeExit ==
  /\ cmd = "unsubscribe"
  /\ pc = "done"
  /\ pc' = "exited"
  /\ exitCode' = 0
  /\ UNCHANGED <<fatal, procEnv, sendEnv, dispatchVars, reconVars, acctVars>>

\* The protected data and grants the service holds before the command
RevokeInitialData ==
  UNION {[1..k -> [dataKey : DataKeys, apebonddata : BOOLEAN,
                   grants : 0..MaxRevokeGrants]] : k \in 0..MaxRevokeData}

InitRevoke ==
  /\ cmd = "unsubscribe"
  /\ pc = "start"
  /\ exitCode = -1
  /\ fatal = Null
  /\ selectedService \in ServiceInputs
  /\ privateKey \in BOOLEAN
  /\ \E data \in RevokeInitialData :
       /\ protectedData = {[address |-> a, dataKey |-> data[a].dataKey,
                            apebonddata |-> data[a].apebonddata]
                           : a \in DOMAIN data}
       /\ grantedAccess = [a \in DOMAIN data |-> data[a].grants]
       /\ nextAddress = Len(data) + 1
  /\ protectedDataList = << >>
  /\ probeIndex = 0
  /\ probeFailed = FALSE
  /\ foundExistingAccess = FALSE
  /\ protectedDataAddress = 0
  /\ shouldGrantAccess = TRUE
  /\ outcome = "none"
  /\ dpCalls = << >>
  /\ runs = 1
  /\ prevRun = NoRun
  /\ allGrantedAccess = << >>
  /\ revokeIndex = 0
  /\ totalRevoked = 0
  /\ printed = {}
  /\ DispatchIdle
  /\ AccountIdle

NextRevoke ==
  \/ UnsubscribeValidate
  \/ UnsubscribeListFail
  \/ UnsubscribeList
  \/ UnsubscribeProbe
  \/ UnsubscribeProbeFail
  \/ RevokeOk
  \/ RevokeFail
  \/ UnsubscribeExit

SpecRevoke == InitRevoke /\ [][NextRevoke]_vars

\* ------------------------------------------------------------------------
\* subscribe and unsubscribe run one after the other on the same service
\* state (src/unnamed/part_001:136-158)
\* ------------------------------------------------------------------------
\* The user runs subscribe or unsubscribe after the command has exited
RunNext ==
  /\ cmd \in {"subscribe", "unsubscribe"}
  /\ pc = "exited"
  /\ runs < MaxRuns
  /\ runs' = runs + 1
  /\ prevRun' = [cmd |-> cmd, service |-> selectedService,
                 outcome |-> outcome, address |-> protectedDataAddress,
                 exitCode |-> exitCode,
                 created |-> \E k \in CallsOf("protectData") : dpCalls[k].ok]
  /\ cmd' \in {"subscribe", "unsubscribe"}
  /\ selectedService' \in ServiceInputs
  /\ pc' = "start"
  /\ exitCode' = -1
  /\ fatal' = Null
  /\ protectedDataList' = << >>
  /\ probeIndex' = 0
  /\ probeFailed' = FALSE
  /\ foundExistingAccess' = FALSE
  /\ protectedDataAddress' = 0
  /\ shouldGrantAccess' = TRUE
  /\ outcome' = "none"
  /\ dpCalls' = << >>
  /\ allGrantedAccess' = << >>
  /\ revokeIndex' = 0
  /\ totalRevoked' = 0
  /\ printed' = {}
  /\ UNCHANGED <<privateKey, sendEnv, dispatchVars, serviceState, acctVars>>

InitLifecycle ==
  \/ InitReconcile
  \/ InitRevoke

NextLifecycle ==
  \/ SubscribeValidate
  \/ SubscribeListFail
  \/ SubscribeList
  \/ ProbeGrants
  \/ ProbeFails
  \/ CreateOk
  \/ CreateFail
  \/ GrantOk
  \/ GrantFail
  \/ SubscribeExit
  \/ UnsubscribeValidate
  \/ UnsubscribeListFail
  \/ UnsubscribeList
  \/ UnsubscribeProbe
  \/ UnsubscribeProbeFail
  \/ RevokeOk
  \/ RevokeFail
  \/ UnsubscribeExit
  \/ RunNext

SpecLifecycle == InitLifecycle /\ [][NextLifecycle]_vars

\* ------------------------------------------------------------------------
\* Properties of unsubscribe
\* ------------------------------------------------------------------------
RevokeCalls == CallsOf("revokeAllAccess")

RECURSIVE CountSum(_)
CountSum(calls) ==
  IF calls = {} THEN 0
  ELSE LET c == CHOOSE x \in calls : TRUE
       IN dpCalls[c].count + CountSum(calls \ {c})

\* The grants the resolved probes of this run returned for a dataset
GrantsFoundOn(dataset) ==
  CountSum({c \in ProbeCalls : dpCalls[c].target = dataset})

\* The listing of this unsubscribe run resolved with some resource and the
\* handler has returned
RevokeRunOver ==
  /\ cmd = "unsubscribe"
  /\ Len(protectedDataList) > 0
  /\ pc \in {"done", "exited"}

\* C19: unsubscribe queries the grants of every listed resource, once each
\* and in listing order, and issues one revoke call per grant the queries
\* returned: per dataset, and in total, the revoke calls are as many as the
\* grants found.
C19_OneRevokePerGrantFound ==
  cmd = "unsubscribe" =>
    /\ \A c \in ProbeCalls : dpCalls[c].target = protectedDataList[c - 1]
    /\ pc = "revoke" =>
         /\ Cardinality(ProbeCalls) = Len(protectedDataList)
         /\ Cardinality(RevokeCalls) = revokeIndex - 1
         /\ Len(allGrantedAccess) = CountSum(ProbeCalls)
    /\ RevokeRunOver =>
         /\ ProbeCalls = 2..(Len(protectedDataList) + 1)
         /\ Cardinality(RevokeCalls) = CountSum(ProbeCalls)
         /\ \A k \in DOMAIN protectedDataList :
              Cardinality({c \in RevokeCalls :
                             dpCalls[c].target = protectedDataList[k]})
                = GrantsFoundOn(protectedDataList[k])

\* Two grants on one resource and one on the other: three revoke calls
C19_Witness ==
  /\ RevokeRunOver
  /\ Len(protectedDataList) = 2
  /\ CountSum(ProbeCalls) = 3
  /\ Cardinality(RevokeCalls) = 3
  /\ \A c \in DOMAIN dpCalls : dpCalls[c].ok

\* C20: a rejected grant query and a rejected revoke call are caught: the
\* command does not fail, every listed resource is still queried and every
\* grant found still gets its revoke call.
C20_RevokeFailuresIsolated ==
  (cmd = "unsubscribe"
     /\ \E c \in ProbeCalls \cup RevokeCalls : ~dpCalls[c].ok) =>
    /\ fatal = Null
    /\ exitCode # 1
    /\ \A c \in ProbeCalls :
         (~dpCalls[c].ok /\ c - 1 < Len(protectedDataList)) =>
           \/ c = Len(dpCalls) /\ pc = "probe" /\ probeIndex = c
           \/ c + 1 \in ProbeCalls
    /\ \A c \in RevokeCalls :
         LET n == Cardinality({r \in RevokeCalls : r <= c})
         IN (~dpCalls[c].ok /\ n < Len(allGrantedAccess)) =>
              \/ c = Len(dpCalls) /\ pc = "revoke" /\ revokeIndex = n + 1
              \/ /\ c + 1 \in RevokeCalls
                 /\ dpCalls[c + 1].target = allGrantedAccess[n + 1]
    /\ RevokeRunOver =>
         /\ Cardinality(ProbeCalls) = Len(protectedDataList)
         /\ Cardinality(RevokeCalls) = Len(allGrantedAccess)
         /\ totalRevoked = Cardinality({c \in RevokeCalls : dpCalls[c].ok})

\* The first query fails, the second finds two grants, the first revoke
\* call fails and the second is still made
C20_Witness ==
  /\ RevokeRunOver
  /\ Len(dpCalls) = 5
  /\ dpCalls[2].op = "getGrantedAccess"
  /\ ~dpCalls[2].ok
  /\ dpCalls[3].ok
  /\ dpCalls[4].op = "revokeAllAccess"
  /\ ~dpCalls[4].ok
  /\ dpCalls[5].op = "revokeAllAccess"
  /\ dpCalls[5].ok

\* The revoke loop of this unsubscribe run has run to its end
RevokeLoopOver == RevokeRunOver /\ RevokeCalls # {}

\* C21: at its end unsubscribe has reported the number of resources
\* scanned, of grants found, of grants revoked and of grants it failed to
\* revoke, and the last two add up to the grants found.
C21_RevocationCounts ==
  RevokeLoopOver =>
    /\ Report("scanned", Len(protectedDataList)) \in printed
    /\ Report("found", CountSum(ProbeCalls)) \in printed
    /\ \E revoked, failed \in 0..Len(allGrantedAccess) :
         /\ Report("revoked", revoked) \in printed
         /\ Report("failed", failed) \in printed
         /\ revoked = Cardinality({c \in RevokeCalls : dpCalls[c].ok})
         /\ failed = Cardinality({c \in RevokeCalls : ~dpCalls[c].ok})
         /\ revoked + failed = CountSum(ProbeCalls)

\* ------------------------------------------------------------------------
\* deposit (src/unnamed/part_001:775-856)
\* ------------------------------------------------------------------------

\* options.amount || "1": one RLC, in nano RLC
DefaultDepositNano == 1000000000

\* Math.floor(parseFloat(options.amount || "1") * 1_000_000_000); the
\* value is not used when the amount does not parse
DepositNano(option) ==
  IF option = NoAmount THEN DefaultDepositNano
  ELSE IF option = NotANumber THEN 0
  ELSE ToNano(option.value)

\* if (depositAmount > 0): false for 0, for a negative amount and for NaN
DepositWantedOrZero(option) ==
  option = NoAmount \/ (option.kind = "number" /\ option.value >= 0)

DepositWanted(option) ==
  option = NoAmount \/ (option.kind = "number" /\ option.value > 0)

\* The amount is parsed, then initializeIExec
DepositValidate ==
  /\ cmd = "deposit"
  /\ pc = "start"
  /\ depositAmountNano' = DepositNano(amountOption)
  /\ IF ~privateKey
       THEN HandleError(<<"PRIVATE_KEY not found">>)
       ELSE pc' = "address" /\ UNCHANGED <<exitCode, fatal>>
  /\ UNCHANGED <<procEnv, sendEnv, dispatchVars, reconVars, balanceVars,
                 amountOption, available, withdrawAmountNano, accountCalls,
                 prompts>>

\* iexec.wallet.getAddress resolves
DepositAddress ==
  /\ cmd = "deposit"
  /\ pc = "address"
  /\ pc' = "balance"
  /\ UNCHANGED <<exitCode, fatal, procEnv, sendEnv, dispatchVars, reconVars,
                 acctVars>>

\* iexec.wallet.getAddress rejects
DepositAddressFail ==
  /\ cmd = "deposit"
  /\ pc = "address"
  /\ HandleError(<<"getAddress failed">>)
  /\ UNCHANGED <<procEnv, sendEnv, dispatchVars, reconVars, acctVars>>

\* iexec.account.checkBalance rejects
DepositBalanceFail ==
  /\ cmd = "deposit"
  /\ pc = "balance"
  /\ accountCalls' = Append(accountCalls, AccountCall("checkBalance", 0, FALSE))
  /\ HandleError(<<"checkBalance failed">>)
  /\ UNCHANGED <<procEnv, sendEnv, dispatchVars, reconVars, balanceVars,
                 amountOption, available, withdrawAmountNano,
                 depositAmountNano, prompts>>

\* iexec.account.checkBalance resolves: the prompt, or the end
DepositBalance ==
  /\ cmd = "deposit"
  /\ pc = "balance"
  /\ accountCalls' = Append(accountCalls, AccountCall("checkBalance", 0, TRUE))
  /\ available' = FormatBalance(stake, locked).available
  /\ pc' = IF DepositWanted(amountOption) THEN "confirm" ELSE "done"
  /\ UNCHANGED <<exitCode, fatal, procEnv, sendEnv, dispatchVars, reconVars,
                 balanceVars, amountOption, withdrawAmountNano,
                 depositAmountNano, prompts>>

\* The user declines
DepositDeclinedStillDeposits ==
  /\ cmd = "deposit"
  /\ pc = "confirm"
  /\ prompts' = Append(prompts, FALSE)
  /\ accountCalls' = Append(accountCalls,
                            AccountCall("deposit", depositAmountNano, TRUE))
  /\ pc' = "depositing"
  /\ UNCHANGED <<exitCode, fatal, procEnv, sendEnv, dispatchVars, reconVars,
                 balanceVars, amountOption, available, withdrawAmountNano,
                 depositAmountNano>>

DepositDeclined ==
  /\ cmd = "deposit"
  /\ pc = "confirm"
  /\ prompts' = Append(prompts, FALSE)
  /\ pc' = "done"
  /\ UNCHANGED <<exitCode, fatal, procEnv, sendEnv, dispatchVars, reconVars,
                 balanceVars, amountOption, available, withdrawAmountNano,
                 accountCalls, depositAmountNano>>

\* The user confirms: iexec.account.deposit is called
DepositConfirmed ==
  /\ cmd = "deposit"
  /\ pc = "confirm"
  /\ prompts' = Append(prompts, TRUE)
  /\ accountCalls' = Append(accountCalls,
                            AccountCall("deposit", depositAmountNano, TRUE))
  /\ pc' = "depositing"
  /\ UNCHANGED <<exitCode, fatal, procEnv, sendEnv, dispatchVars, reconVars,
                 balanceVars, amountOption, available, withdrawAmountNano,
                 depositAmountNano>>

\* iexec.account.deposit resolves
DepositOk ==
  /\ cmd = "deposit"
  /\ pc = "depositing"
  /\ stake' = stake + depositAmountNano
  /\ pc' = "recheck"
  /\ UNCHANGED <<exitCode, fatal, procEnv, sendEnv, dispatchVars, reconVars,
                 locked, amountOption, available, withdrawAmountNano,
                 accountCalls, depositAmountNano, prompts>>

\* iexec.account.deposit rejects
DepositFail ==
  /\ cmd = "deposit"
  /\ pc = "depositing"
  /\ HandleError(<<"deposit failed">>)
  /\ UNCHANGED <<procEnv, sendEnv, dispatchVars, reconVars, acctVars>>

\* The second checkBalance resolves and the handler returns
DepositRecheck ==
  /\ cmd = "deposit"
  /\ pc = "recheck"
  /\ accountCalls' = Append(accountCalls, AccountCall("checkBalance", 0, TRUE))
  /\ pc' = "done"
  /\ UNCHANGED <<exitCode, fatal, procEnv, sendEnv, dispatchVars, reconVars,
                 balanceVars, amountOption, available, withdrawAmountNano,
                 depositAmountNano, prompts>>

\* The second checkBalance rejects
DepositRecheckFail ==
  /\ cmd = "deposit"
  /\ pc = "recheck"
  /\ accountCalls' = Append(accountCalls, AccountCall("checkBalance", 0, FALSE))
  /\ HandleError(<<"checkBalance failed">>)
  /\ UNCHANGED <<procEnv, sendEnv, dispatchVars, reconVars, balanceVars,
                 amountOption, available, withdrawAmountNano,
                 depositAmountNano, prompts>>

\* The handler has returned
DepositExit ==
  /\ cmd = "deposit"
  /\ pc = "done"
  /\ pc' = "exited"
  /\ exitCode' = 0
  /\ UNCHANGED <<fatal, procEnv, sendEnv, dispatchVars, reconVars, acctVars>>

InitDeposit ==
  /\ cmd = "deposit"
  /\ pc = "start"
  /\ exitCode = -1
  /\ fatal = Null
  /\ selectedService = "telegram"
  /\ privateKey \in BOOLEAN
  /\ stake \in 0..MaxStake
  /\ locked \in 0..stake
  /\ amountOption \in AmountOptions
  /\ available = 0
  /\ withdrawAmountNano = 0
  /\ accountCalls = << >>
  /\ depositAmountNano = 0
  /\ prompts = << >>
  /\ DispatchIdle
  /\ ReconIdle

NextDeposit ==
  \/ DepositValidate
  \/ DepositAddress
  \/ DepositAddressFail
  \/ DepositBalanceFail
  \/ DepositBalance
  \/ DepositDeclined
  \/ DepositConfirmed
  \/ DepositOk
  \/ DepositFail
  \/ DepositRecheck
  \/ DepositRecheckFail
  \/ DepositExit

SpecDeposit == InitDeposit /\ [][NextDeposit]_vars

\* ------------------------------------------------------------------------
\* The five commands
\* ------------------------------------------------------------------------
InitCommands ==
  \/ InitDispatch
  \/ InitReconcile
  \/ InitRevoke
  \/ InitDeposit
  \/ InitAccount

NextCommands ==
  \/ NextDispatch
  \/ NextReconcile
  \/ NextRevoke
  \/ NextDeposit
  \/ NextAccount

SpecCommands == InitCommands /\ [][NextCommands]_vars

\* ------------------------------------------------------------------------
\* Properties of the commands
\* ------------------------------------------------------------------------

\* A collaborator call failed that is not one of the per-resource or
\* per-grant calls of the scan and revoke loops
NonIsolatedFailure ==
  \/ \E c \in DOMAIN dpCalls :
       /\ ~dpCalls[c].ok
       /\ dpCalls[c].op \notin {"getGrantedAccess", "revokeAllAccess"}
  \/ \E c \in DOMAIN accountCalls : ~accountCalls[c].ok

\* C22: a command that has exited has status 0 or 1; the status is 1
\* exactly when an error went to handleError; an error that is not
\* isolated is fatal: the failed call is the command's last collaborator
\* call and the status is 1.
C22_ExitStatusFollowsErrors ==
  /\ pc = "exited" => exitCode \in {0, 1}
  /\ exitCode = 1 <=> fatal # Null
  /\ fatal # Null => pc = "exited"
  /\ \A c \in DOMAIN dpCalls :
       (~dpCalls[c].ok
          /\ dpCalls[c].op \notin {"getGrantedAccess", "revokeAllAccess"}) =>
         c = Len(dpCalls)
  /\ (NonIsolatedFailure /\ pc = "exited") => exitCode = 1

\* A dispatch of send-test over some contacts has run and the process has
\* exited
DispatchExited ==
  /\ cmd = "send-test"
  /\ mode \in {"SEQUENTIAL", "CONCURRENT"}
  /\ pc = "exited"
  /\ Len(results) > 0

\* C23: with isolated errors only, the exit status of send-test and of
\* unsubscribe is 0 when some send or some revoke succeeded and is not 0
\* when none did; a subscribe run whose only errors are failed probes
\* exits with status 0.
C23_ExitStatusOfIsolatedErrors ==
  /\ DispatchExited => (exitCode = 0 <=> successCount > 0)
  /\ (cmd = "unsubscribe" /\ pc = "exited" /\ RevokeCalls # {}) =>
       (exitCode = 0 <=> totalRevoked > 0)
  /\ (cmd = "subscribe" /\ pc = "exited" /\ ~NonIsolatedFailure
        /\ Len(dpCalls) > 0) => exitCode = 0

\* The command takes a service selection
TakesService ==
  \/ cmd \in {"subscribe", "unsubscribe"}
  \/ cmd = "send-test" /\ mode # "SINGLE"

CollaboratorCalls == Len(dpCalls) + Len(accountCalls) + Len(sendLog)

\* C24: without the private key, or with a service other than telegram
\* and mail, the command goes from its start to exit status 1: it never
\* reaches a call to the data-protection, messaging or account service.
C24_ConfigurationErrorsAbort ==
  (~privateKey \/ (TakesService /\ selectedService \notin Services)) =>
    /\ pc \in {"start", "exited"}
    /\ CollaboratorCalls = 0
    /\ contacts = << >>
    /\ prompts = << >>
    /\ pc = "exited" =>
         /\ exitCode = 1
         /\ fatal \in {<<"PRIVATE_KEY not found">>, <<"Invalid service">>}

C24_Witness ==
  /\ cmd = "withdraw"
  /\ ~privateKey
  /\ pc = "exited"
  /\ exitCode = 1
  /\ fatal = <<"PRIVATE_KEY not found">>
  /\ accountCalls = << >>

FundCalls ==
  {k \in DOMAIN accountCalls : accountCalls[k].op \in {"deposit", "withdraw"}}

\* C25: deposit and withdraw call the account service's deposit or
\* withdraw only after the user answered yes to the one confirmation
\* prompt; after the answer no, no such call is made and the command ends
\* without error.
C25_CallOnlyAfterConfirmation ==
  cmd \in {"deposit", "withdraw"} =>
    /\ Len(prompts) <= 1
    /\ Cardinality(FundCalls) <= 1
    /\ FundCalls # {} => prompts = <<TRUE>>
    /\ \A k \in FundCalls :
         accountCalls[k].op = cmd /\ k = 2
    /\ prompts = <<FALSE>> =>
         /\ FundCalls = {}
         /\ fatal = Null
         /\ exitCode # 1
         /\ pc \in {"done", "exited"}
         /\ Len(accountCalls) = 1

C25_Witness ==
  /\ cmd = "deposit"
  /\ prompts = <<FALSE>>
  /\ pc = "exited"
  /\ exitCode = 0
  /\ FundCalls = {}

\* deposit --amount 0
ZeroDeposit ==
  cmd = "deposit" /\ amountOption = [kind |-> "number", value |-> 0]

\* C26: deposit with amount 0 only checks the balance: no prompt, no
\* deposit call, no other account call than the one checkBalance, and
\* when that check succeeds the command exits with status 0.
C26_ZeroDepositChecksBalance ==
  ZeroDeposit =>
    /\ prompts = << >>
    /\ FundCalls = {}
    /\ pc \in {"start", "address", "balance", "done", "exited"}
    /\ Len(accountCalls) <= 1
    /\ accountCalls = <<AccountCall("checkBalance", 0, TRUE)>> =>
         /\ pc \in {"done", "exited"}
         /\ fatal = Null
         /\ exitCode # 1
    /\ (pc = "exited" /\ exitCode = 0) =>
         accountCalls = <<AccountCall("checkBalance", 0, TRUE)>>

C26_Witness ==
  /\ ZeroDeposit
  /\ pc = "exited"
  /\ exitCode = 0
  /\ accountCalls = <<AccountCall("checkBalance", 0, TRUE)>>
  /\ prompts = << >>

\* C30: when the balance fetched by withdraw has nothing available, the
\* command ends there whatever --amount says: no prompt, no withdraw call,
\* no error, exit status 0.
C30_NothingAvailableNoWithdraw ==
  (BalanceFetched /\ available = 0) =>
    /\ prompts = << >>
    /\ WithdrawCalls = {}
    /\ Len(accountCalls) = 1
    /\ withdrawAmountNano = 0
    /\ pc \in {"done", "exited"}
    /\ fatal = Null
    /\ pc = "exited" => exitCode = 0

C30_Witness ==
  /\ BalanceFetched
  /\ available = 0
  /\ stake > 0
  /\ AmountGiven
  /\ amountOption.value > 0
  /\ pc = "exited"
  /\ exitCode = 0

\* ------------------------------------------------------------------------
\* Properties of runs that follow one another, and of the ends of the
\* commands
\* ------------------------------------------------------------------------
ListingResolved ==
  \E k \in CallsOf("getProtectedData") : dpCalls[k].ok

\* C31: unsubscribe leaves the protected data as they are and adds no grant;
\* subscribe takes no grant away; over any sequence of subscribe and
\* unsubscribe runs the set of protected data only grows, by one resource at
\* a time, and only in a subscribe run whose listing resolved empty.
C31_FrameOfSubscribeAndUnsubscribe ==
  [][/\ cmd = "unsubscribe" =>
          /\ protectedData' = protectedData
          /\ nextAddress' = nextAddress
          /\ DOMAIN grantedAccess' = DOMAIN grantedAccess
          /\ \A a \in DOMAIN grantedAccess :
               grantedAccess'[a] <= grantedAccess[a]
     /\ cmd = "subscribe" =>
          \A a \in DOMAIN grantedAccess :
            /\ a \in DOMAIN grantedAccess'
            /\ grantedAccess'[a] >= grantedAccess[a]
     /\ protectedData \subseteq protectedData'
     /\ protectedData' # protectedData =>
          /\ cmd = "subscribe"
          /\ ListingResolved
          /\ protectedDataList = << >>
          /\ Cardinality(protectedData') = Cardinality(protectedData) + 1
    ]_vars

C31_Witness ==
  /\ cmd = "unsubscribe"
  /\ prevRun.cmd = "subscribe"
  /\ prevRun.created
  /\ prevRun.outcome = "CREATED_AND_GRANTED"
  /\ pc = "exited"
  /\ \E k \in RevokeCalls :
       dpCalls[k].ok /\ dpCalls[k].target = prevRun.address
  /\ grantedAccess[prevRun.address] = 0
  /\ \E d \in protectedData : d.address = prevRun.address

\* C32: the sequential dispatch arms no timer; once begun it never ends in
\* a fatal error, it runs one pass per contact and then produces the
\* summary, and it always gets there.
SequentialBegun == cmd = "send-test" /\ mode = "SEQUENTIAL" /\ i > 0

C32_SequentialTerminates ==
  /\ [](SequentialBegun =>
          /\ ~timerArmed
          /\ ~timedOut
          /\ fatal = Null
          /\ exitCode # 1
          /\ Len(results) = i - 1
          /\ pc = "loop" => i <= Len(contacts) /\ ~SummaryProduced
          /\ pc # "loop" =>
               /\ pc \in {"done", "exited"}
               /\ i = Len(contacts) + 1
               /\ SummaryProduced)
  /\ (SequentialBegun ~>
        (pc = "exited" /\ exitCode = 0 /\ Len(results) = Len(contacts)))

C32_Witness ==
  /\ SequentialBegun
  /\ Len(contacts) = 2
  /\ i = 3
  /\ pc = "exited"
  /\ exitCode = 0

PrevCreatedGrantFailed ==
  /\ cmd = "subscribe"
  /\ prevRun.cmd = "subscribe"
  /\ prevRun.created
  /\ prevRun.exitCode = 1
  /\ prevRun.service = selectedService

C35_RetryGrantsOnCreated ==
  PrevCreatedGrantFailed =>
    /\ \E d \in protectedData : d.address = prevRun.address
    /\ CallsOf("protectData") = {}
    /\ ListingResolved => protectedDataList = <<prevRun.address>>
    /\ \A k \in CallsOf("grantAccess") : dpCalls[k].target = prevRun.address
    /\ (Ended /\ fatal = Null) =>
         /\ outcome = "GRANTED_TO_EXISTING"
         /\ protectedDataAddress = prevRun.address
         /\ grantedAccess[prevRun.address] = 1

C35_Witness ==
  /\ PrevCreatedGrantFailed
  /\ pc = "exited"
  /\ exitCode = 0
  /\ outcome = "GRANTED_TO_EXISTING"
  /\ grantedAccess[prevRun.address] = 1

\* C36: every withdraw call carries an amount above zero and at most the
\* available balance fetched at the start, and without --amount the amount
\* is that available balance.
C36_WithdrawAmountInRange ==
  cmd = "withdraw" =>
    \A k \in WithdrawCalls :
      /\ accountCalls[k].amount > 0
      /\ accountCalls[k].amount <= available
      /\ amountOption = NoAmount => accountCalls[k].amount = available

\* C37: in the concurrent dispatch, once the summary is built from sends
\* that all settled before the timer, nothing changes it any more: the
\* results hold one entry per contact and none for a timeout, no error is
\* raised, and the timer that fires afterwards leaves results, counts and
\* summary as they are and the exit status at 0.
SettledInTime ==
  /\ cmd = "send-test"
  /\ mode = "CONCURRENT"
  /\ SummaryProduced
  /\ ~timedOut

C37_LateTimeoutHasNoEffect ==
  /\ [](SettledInTime =>
          /\ fatal = Null
          /\ exitCode # 1
          /\ Len(results) = Len(contacts)
          /\ \A k \in DOMAIN results :
               /\ results[k].contact = contacts[k]
               /\ results[k].error # <<"Timeout">>
          /\ summary.total = Len(contacts)
          /\ summary.successCount =
               Cardinality({k \in DOMAIN results : results[k].success})
          /\ summary.errorCount =
               Cardinality({k \in DOMAIN results : ~results[k].success}))
  /\ [][SettledInTime =>
          /\ summary' = summary
          /\ results' = results
          /\ successCount' = successCount
          /\ errorCount' = errorCount
          /\ ~timedOut'
          /\ fatal' = Null
          /\ exitCode' \in {-1, 0}]_vars

C37_Witness ==
  /\ SettledInTime
  /\ timerFired
  /\ pc = "exited"
  /\ exitCode = 0
  /\ Len(results) = 2

\* C38: when getProtectedData rejects, it is the only call of the run; in
\* unsubscribe no error leaves the command and the exit status is 0, in
\* subscribe the error goes to handleError and the exit status is 1.
ListingFailed ==
  /\ cmd \in {"subscribe", "unsubscribe"}
  /\ \E k \in CallsOf("getProtectedData") : ~dpCalls[k].ok

C38_ListingFailure ==
  ListingFailed =>
    /\ Len(dpCalls) = 1
    /\ protectedDataList = << >>
    /\ cmd = "unsubscribe" =>
         /\ fatal = Null
         /\ printed = {}
         /\ pc \in {"done", "exited"}
         /\ exitCode = IF pc = "exited" THEN 0 ELSE -1
    /\ cmd = "subscribe" =>
         /\ fatal = <<"getProtectedData failed">>
         /\ outcome = "none"
         /\ pc = "exited"
         /\ exitCode = 1

C38_Witness ==
  /\ ListingFailed
  /\ cmd = "unsubscribe"
  /\ pc = "exited"
  /\ exitCode = 0
====
